---- MODULE Spec2Model ----
(***************************************************************************)
(* Model of src/main.py: the name / phone normalizers, the folder-title    *)
(* codec, the three-tier folder resolver, the stage-history reducer and    *)
(* the /check handler with its process-wide stage-label cache.             *)
(*                                                                         *)
(* Text is a sequence of characters; a character is a one-letter string,   *)
(* or the code-point name ("U00DF") of a character outside ASCII.          *)
(***************************************************************************)
EXTENDS Integers, Sequences, FiniteSets, TLC

VARIABLES
    op,       \* the operation that produced ret ("none" before any call)
    arg,      \* the inputs of the call under study
    ret,      \* what the call returned
    cache,    \* _STAGE_MAP_CACHE: category id -> the label list stored for it
    fetches,  \* label lists obtained from the record system so far, per
              \* category: by handle_check itself (direct), by the cache (cached)
    nreq,     \* requests handled so far
    last      \* the last handled request: its environment and its reply

vars == <<op, arg, ret, cache, fetches, nreq, last>>

----------------------------------------------------------------------------
(* Characters *)

Digit == {"0", "1", "2", "3", "4", "5", "6", "7", "8", "9"}

\* src/main.py:163: the apostrophe-like code points U+2019, U+0060 (grave), U+02BC,
\* U+02B9, U+2032, U+FF07, U+A78C.
APOSTROPHES == {"U2019", "U0060", "U02BC", "U02B9", "U2032", "UFF07", "UA78C"}

\* Characters the regex class \s matches: space, tab, no-break space.
Whitespace == {" ", "TAB", "U00A0"}

\* Lower / upper pairs of the letters the model uses.
CasePairs == {<<"a", "A">>, <<"b", "B">>, <<"c", "C">>, <<"d", "D">>,
              <<"e", "E">>, <<"f", "F">>, <<"s", "S">>}

\* str.upper() of one character; U+00DF (sharp s) has the two-letter upper
\* case "SS" and no single upper-case letter.
Upper(c) ==
    IF \E p \in CasePairs : p[1] = c
    THEN <<(CHOOSE p \in CasePairs : p[1] = c)[2]>>
    ELSE IF c = "U00DF" THEN <<"S", "S">> ELSE <<c>>

\* str.lower() of one character.
Lower(c) ==
    IF \E p \in CasePairs : p[2] = c
    THEN <<(CHOOSE p \in CasePairs : p[2] = c)[1]>>
    ELSE <<c>>

\* unicodedata.normalize("NFKC", c) of one character: the no-break space
\* becomes a space, the fullwidth grave accent U+FF40 a grave accent, the
\* fullwidth apostrophe U+FF07 an apostrophe.
NFKCChar(c) ==
    CASE c = "U00A0" -> " "
      [] c = "UFF40" -> "U0060"
      [] c = "UFF07" -> "'"
      [] OTHER -> c

----------------------------------------------------------------------------
(* Sequence helpers (Python's str methods) *)

Min(a, b) == IF a < b THEN a ELSE b

Max(a, b) == IF a > b THEN a ELSE b

\* s[-n:]
LastN(s, n) == SubSeq(s, Max(1, Len(s) - n + 1), Len(s))

\* s[n:]
DropN(s, n) == SubSeq(s, n + 1, Len(s))

\* s.startswith(p)
StartsWith(s, p) == Len(s) >= Len(p) /\ SubSeq(s, 1, Len(p)) = p

\* p in s (substring)
Contains(s, p) ==
    \E i \in 0..(Len(s) - Len(p)) : SubSeq(s, i + 1, i + Len(p)) = p

\* s.replace(c, r) for every c of set
ReplaceChars(s, set, r) ==
    [i \in 1..Len(s) |-> IF s[i] \in set THEN r ELSE s[i]]

\* re.sub(r"\D", "", s)
OnlyDigits(s) == SelectSeq(s, LAMBDA c : c \in Digit)

RECURSIVE LStrip(_, _)
\* s.lstrip(chars): drops leading characters while they belong to the set
LStrip(s, set) ==
    IF s # <<>> /\ Head(s) \in set THEN LStrip(Tail(s), set) ELSE s

RECURSIVE RStrip(_, _)
RStrip(s, set) ==
    IF s # <<>> /\ s[Len(s)] \in set
    THEN RStrip(SubSeq(s, 1, Len(s) - 1), set) ELSE s

\* s.strip()
Strip(s) == RStrip(LStrip(s, Whitespace), Whitespace)

RECURSIVE Split(_, _)
\* s.split(sep) for a one-character separator: always at least one part
Split(s, sep) ==
    IF \E i \in 1..Len(s) : s[i] = sep
    THEN LET i == CHOOSE k \in 1..Len(s) :
                      s[k] = sep /\ \A j \in 1..(k - 1) : s[j] # sep
         IN  <<SubSeq(s, 1, i - 1)>> \o Split(DropN(s, i), sep)
    ELSE <<s>>

RECURSIVE Join(_, _)
\* sep.join(parts)
Join(parts, sep) ==
    IF parts = <<>> THEN <<>>
    ELSE IF Len(parts) = 1 THEN parts[1]
    ELSE parts[1] \o sep \o Join(Tail(parts), sep)

RECURSIVE UpperSeq(_)
UpperSeq(s) == IF s = <<>> THEN <<>> ELSE Upper(Head(s)) \o UpperSeq(Tail(s))

RECURSIVE LowerSeq(_)
LowerSeq(s) == IF s = <<>> THEN <<>> ELSE Lower(Head(s)) \o LowerSeq(Tail(s))

RECURSIVE CollapseWs(_)
\* re.sub(r"\s+", " ", s): every run of whitespace becomes one space
CollapseWs(s) ==
    IF s = <<>> THEN <<>>
    ELSE IF Head(s) \in Whitespace
         THEN IF Tail(s) # <<>> /\ Head(Tail(s)) \in Whitespace
              THEN CollapseWs(Tail(s))
              ELSE <<" ">> \o CollapseWs(Tail(s))
         ELSE <<Head(s)>> \o CollapseWs(Tail(s))

----------------------------------------------------------------------------
(* Name and phone normalizers, src/main.py:162-208 *)

_unify_apostrophes(s) == ReplaceChars(s, APOSTROPHES, "'")

normalize_spaces(s) ==
    LET nfkc   == [i \in 1..Len(s) |-> NFKCChar(s[i])]
        nonbsp == ReplaceChars(nfkc, {"U00A0"}, " ")
    IN  Strip(CollapseWs(nonbsp))

\* (x[:1].upper() + x[1:].lower()) if x else x
TitleSub(x) ==
    IF x = <<>> THEN x ELSE Upper(Head(x)) \o LowerSeq(Tail(x))

_smart_title(token) ==
    LET t == Strip(token)
        parts_by_dash == Split(t, "-")
        titled_parts ==
            [i \in 1..Len(parts_by_dash) |->
                LET sub == Split(parts_by_dash[i], "'")
                IN  Join([j \in 1..Len(sub) |-> TitleSub(sub[j])], <<"'">>)]
    IN  IF t = <<>> THEN <<>> ELSE Join(titled_parts, <<"-">>)

normalize_fio_string(raw) ==
    LET s1 == normalize_spaces(_unify_apostrophes(raw))
        s2 == ReplaceChars(s1, {",", ".", ";"}, " ")
        s3 == normalize_spaces(s2)
        tokens == SelectSeq(Split(s3, " "), LAMBDA t : t # <<>>)
        titled == [i \in 1..Len(tokens) |-> _smart_title(tokens[i])]
    IN  Join(titled, <<" ">>)

\* The national prefix "+380" and its digits "380".
Plus380 == <<"+", "3", "8", "0">>

D380 == <<"3", "8", "0">>

\* normalize_phone_e164_ua without the body[-9:] truncation.
normalize_phone_untruncated(phone) ==
    LET digits  == OnlyDigits(phone)
        digits2 == IF StartsWith(digits, <<"0">>) THEN D380 \o digits ELSE digits
        body    == IF StartsWith(digits2, D380)
                   THEN DropN(digits2, 3)
                   ELSE LStrip(digits2, {"3", "8", "0"})
    IN  IF digits = <<>> THEN Plus380 ELSE Plus380 \o body

normalize_phone_e164_ua(phone) ==
    LET digits  == OnlyDigits(phone)
        digits2 == IF StartsWith(digits, <<"0">>) THEN D380 \o digits ELSE digits
        body    == IF StartsWith(digits2, D380)
                   THEN DropN(digits2, 3)
                   ELSE LStrip(digits2, {"3", "8", "0"})
    IN  IF digits = <<>> THEN Plus380 ELSE Plus380 \o LastN(body, 9)

build_folder_title(fio, phone_e164) ==
    normalize_fio_string(fio) \o <<",", " ">> \o normalize_phone_e164_ua(phone_e164)

normalize_folder_title_for_compare(title) ==
    LET t == normalize_spaces(_unify_apostrophes(title))
        hasComma == \E i \in 1..Len(t) : t[i] = ","
        \* re.match(r"^(.*?),(.*)$"): the lazy group ends at the first comma
        k == CHOOSE i \in 1..Len(t) :
                 t[i] = "," /\ \A j \in 1..(i - 1) : t[j] # ","
        left   == normalize_fio_string(Strip(SubSeq(t, 1, k - 1)))
        right  == Strip(DropN(t, k))
        digits == OnlyDigits(right)
        phone  == IF digits # <<>> THEN normalize_phone_e164_ua(digits)
                  ELSE normalize_phone_e164_ua(right)
    IN  IF ~hasComma THEN normalize_fio_string(t)
        ELSE left \o <<",", " ">> \o phone

\* Python's None, as a value no text equals.
None == <<"None">>

RECURSIVE LastRun(_)
\* re.findall(r"\d{9,12}", digits)[-1] on a digits-only string: the greedy,
\* non-overlapping matches are taken left to right, 12 digits at a time while
\* at least 9 digits are left.
LastRun(digits) ==
    LET k    == Min(12, Len(digits))
        rest == DropN(digits, k)
    IN  IF Len(rest) >= 9 THEN LastRun(rest) ELSE SubSeq(digits, 1, k)

_extract_e164_from_title(title) ==
    LET digits == OnlyDigits(title)
    IN  IF Len(digits) < 9 THEN None
        ELSE normalize_phone_e164_ua(LastRun(digits))

----------------------------------------------------------------------------
(* The bot process before its first request *)

\* The pipeline categories whose stages the model meets.
Cats == {1, 2}

\* No reply; a reply holds its kind, its document line, whether the history
\* block and the elapsed time of the stage are in it, and the failures it
\* describes.
NoReply ==
    [kind |-> "none", doc |-> "none", history |-> FALSE, stage_extra |-> FALSE,
     noted |-> {}]

InitBot ==
    /\ cache = <<>>
    /\ fetches = [c \in Cats |-> [direct |-> 0, cached |-> 0]]
    /\ nreq = 0
    /\ last = [kind |-> "none", valid |-> FALSE, failed |-> {}, replies |-> 0,
               reply |-> NoReply]

SeqsUpTo(S, n) == UNION {[1..k -> S] : k \in 0..n}

----------------------------------------------------------------------------
(* SpecNorm: the two normalizers, each applied once and then to its own    *)
(* result.                                                                 *)

\* Longest head of a phone input enumerated in full.
MaxHead == 4

PhoneAlphabet == {"0", "3", "8", "6", "-"}

\* Digit tails appended to the enumerated heads, so that inputs of 0 to
\* MaxHead + 12 digits occur.
PhoneTails ==
    { <<>>,
      <<"6", "7", "1", "2", "3">>,
      <<"6", "7", "1", "2", "3", "4", "5", "6">>,
      <<"6", "7", "1", "2", "3", "4", "5", "6", "7">>,
      <<"3", "8", "0", "6", "7", "1", "2", "3", "4", "5", "6", "7">> }

PhoneInputs == {h \o t : h \in SeqsUpTo(PhoneAlphabet, MaxHead), t \in PhoneTails}

\* Longest name input.
MaxName == 3

\* Letters in both cases, the sharp s, a hyphen, the apostrophe and two of its
\* variants (grave accent, fullwidth grave accent), comma, period, space and
\* no-break space.
NameAlphabet == {"a", "B", "U00DF", "-", "'", "U0060", "UFF40", ",", ".", " ", "U00A0"}

NameInputs == SeqsUpTo(NameAlphabet, MaxName)

InitNorm ==
    /\ op = "none"
    /\ arg \in [fn : {"normalize_phone_e164_ua"}, x : PhoneInputs]
              \cup [fn : {"normalize_fio_string"}, x : NameInputs]
    /\ ret = <<>>
    /\ InitBot

CallNormalizePhone ==
    /\ op = "none"
    /\ arg.fn = "normalize_phone_e164_ua"
    /\ op' = "normalize_phone_e164_ua"
    /\ ret' = normalize_phone_e164_ua(arg.x)
    /\ UNCHANGED <<arg, cache, fetches, nreq, last>>

\* A second application, to the result of the first.
CallNormalizePhoneAgain ==
    /\ op = "normalize_phone_e164_ua"
    /\ op' = "normalize_phone_e164_ua twice"
    /\ ret' = normalize_phone_e164_ua(ret)
    /\ UNCHANGED <<arg, cache, fetches, nreq, last>>

CallNormalizeFio ==
    /\ op = "none"
    /\ arg.fn = "normalize_fio_string"
    /\ op' = "normalize_fio_string"
    /\ ret' = normalize_fio_string(arg.x)
    /\ UNCHANGED <<arg, cache, fetches, nreq, last>>

CallNormalizeFioAgain ==
    /\ op = "normalize_fio_string"
    /\ op' = "normalize_fio_string twice"
    /\ ret' = normalize_fio_string(ret)
    /\ UNCHANGED <<arg, cache, fetches, nreq, last>>

NextNorm ==
    \/ CallNormalizePhone
    \/ CallNormalizePhoneAgain
    \/ CallNormalizeFio
    \/ CallNormalizeFioAgain

SpecNorm == InitNorm /\ [][NextNorm]_vars

IsDigits(s) == \A i \in 1..Len(s) : s[i] \in Digit

\* C4, as claimed: every input holding a digit normalizes to "+380" followed
\* by exactly 9 digits, and an input holding none to the bare "+380".
C4_PhoneShapeExactly9 ==
    op = "normalize_phone_e164_ua" =>
        IF OnlyDigits(arg.x) # <<>>
        THEN StartsWith(ret, Plus380) /\ Len(ret) = 13 /\ IsDigits(DropN(ret, 4))
        ELSE ret = Plus380

\* C4, amended: the result is "+380" followed by at most 9 digits, which are
\* the last digits of the input; there are exactly 9 of them when the input
\* holds at least 9 digits and starts with 0, at least 12 and starts with
\* 380, or at least 9 and starts with a digit other than 0, 3 and 8; an input
\* holding no digit gives the bare "+380".
C4_PhoneShapeAtMost9 ==
    op = "normalize_phone_e164_ua" =>
        LET d    == OnlyDigits(arg.x)
            body == DropN(ret, 4)
        IN  /\ StartsWith(ret, Plus380)
            /\ IsDigits(body)
            /\ Len(body) <= 9
            /\ body = LastN(d, Len(body))
            /\ (d = <<>> => ret = Plus380)
            /\ (Len(d) >= 9 /\ d[1] = "0" => Len(body) = 9)
            /\ (Len(d) >= 12 /\ StartsWith(d, D380) => Len(body) = 9)
            /\ (Len(d) >= 9 /\ d[1] \notin {"0", "3", "8"} => Len(body) = 9)

\* C4 witness: an input holding a digit was normalized to fewer than 9 body
\* digits.
C4_ShortBodyReached ==
    /\ op = "normalize_phone_e164_ua"
    /\ OnlyDigits(arg.x) # <<>>
    /\ Len(ret) < 13

\* C6, as claimed: normalizing a normalized name, or a normalized phone,
\* changes nothing.
C6_NormalizeIdempotent ==
    /\ (op = "normalize_fio_string twice" => ret = normalize_fio_string(arg.x))
    /\ (op = "normalize_phone_e164_ua twice"
            => ret = normalize_phone_e164_ua(arg.x))

\* The phone half of C6 on its own.
PhoneNormalizeIdempotent ==
    op = "normalize_phone_e164_ua twice" => ret = normalize_phone_e164_ua(arg.x)

----------------------------------------------------------------------------
(* SpecCodec: build_folder_title, then normalize_folder_title_for_compare  *)
(* on the title it built.                                                  *)

\* Phone strings given to the codec: a national number, a spaced
\* international one, one whose digits are all stripped, a short one, one
\* with no digit, one too long.
CodecPhones ==
    { <<"0", "6", "7", "1", "2", "3", "4", "5", "6", "7">>,
      <<"+", "3", "8", "0", " ", "6", "7", " ", "1", "2", "3", " ", "4", "5", "6", "7">>,
      <<"3", "3", "8">>,
      <<"1", "2">>,
      <<"-">>,
      <<"3", "8", "0", "6", "7", "1", "2", "3", "4", "5", "6", "7", "8", "9">> }

InitCodec ==
    /\ op = "none"
    /\ arg \in [fio : NameInputs, phone : CodecPhones]
    /\ ret = <<>>
    /\ InitBot

CallBuildFolderTitle ==
    /\ op = "none"
    /\ op' = "build_folder_title"
    /\ ret' = build_folder_title(arg.fio, arg.phone)
    /\ UNCHANGED <<arg, cache, fetches, nreq, last>>

CallNormalizeTitleForCompare ==
    /\ op = "build_folder_title"
    /\ op' = "normalize_folder_title_for_compare"
    /\ ret' = [built |-> ret, parsed |-> normalize_folder_title_for_compare(ret)]
    /\ UNCHANGED <<arg, cache, fetches, nreq, last>>

NextCodec == CallBuildFolderTitle \/ CallNormalizeTitleForCompare

SpecCodec == InitCodec /\ [][NextCodec]_vars

\* C5, as claimed: for a non-empty name and a phone string holding a digit,
\* parsing the built title gives the canonical name and the canonical phone
\* again, which is the built title.
C5_CodecRoundTrip ==
    (/\ op = "normalize_folder_title_for_compare"
     /\ arg.fio # <<>>
     /\ OnlyDigits(arg.phone) # <<>>)
    => /\ ret.parsed = ret.built
       /\ ret.parsed = normalize_fio_string(arg.fio) \o <<",", " ">>
                           \o normalize_phone_e164_ua(arg.phone)

\* The round trip for the names on which normalize_fio_string is idempotent:
\* C5 fails on no other name.
CodecRoundTripOnStableNames ==
    (/\ op = "normalize_folder_title_for_compare"
     /\ normalize_fio_string(normalize_fio_string(arg.fio))
            = normalize_fio_string(arg.fio))
    => ret.parsed = ret.built

----------------------------------------------------------------------------
(* Folder resolver, src/main.py:224-309.  The document store is a sequence  *)
(* of folder names under the root; a folder id is its position, and 0 is    *)
(* "no folder".  A drive_search is the store answering the query text q.    *)

\* s[a:b]
Slice(s, a, b) == SubSeq(s, a + 1, Min(b, Len(s)))

\* The query text holds the value between apostrophes (name = '...', name
\* contains '...'), written into it as it is: an apostrophe inside the value
\* ends the literal early and the store rejects the query.
QueryTextOk(value) == \A i \in 1..Len(value) : value[i] # "'"

\* What drive_search returns, all pages together: the ids of the set, in
\* store order.
InStoreOrder(folders, ids) ==
    SelectSeq([i \in 1..Len(folders) |-> i], LAMBDA i : i \in ids)

Raise(queries) == [status |-> "error", folder |-> 0, tier |-> 0, queries |-> queries]

Found(id, tier, queries) ==
    [status |-> "ok", folder |-> id, tier |-> tier, queries |-> queries]

\* Python's order on the sort keys, pairs of integers.
KeyLess(a, b) == a[1] < b[1] \/ (a[1] = b[1] /\ a[2] < b[2])

\* items.sort(key=..., reverse=True); items[0]: the sort is stable, so this
\* is the position of the first of the items with the largest key.  keys[k]
\* is the key of the k-th item.
FirstMaxPos(keys) ==
    CHOOSE k \in 1..Len(keys) :
        /\ \A j \in 1..Len(keys) : ~KeyLess(keys[k], keys[j])
        /\ \A j \in 1..(k - 1) : KeyLess(keys[j], keys[k])

\* sort(key=lambda f: len(f["name"]), reverse=True)[0]
LongestFirst(items, folders) ==
    items[FirstMaxPos([k \in 1..Len(items) |-> <<0, Len(folders[items[k]])>>])]

\* Tier 1: the ids the query "name = exact_name" returns, page_size=1.
find_folder_by_exact_name_under(folders, exact_name) ==
    LET res == InStoreOrder(folders,
                   {i \in 1..Len(folders) : folders[i] = exact_name})
    IN  IF ~QueryTextOk(exact_name) THEN Raise(<<1>>)
        ELSE IF res # <<>> THEN Found(res[1], 1, <<1>>)
        ELSE Found(0, 0, <<1>>)

\* Tier 2.
find_folder_by_fuzzy(folders, fio_norm, phone_last9) ==
    LET anchor == Split(fio_norm, ",")[1]
        all    == InStoreOrder(folders,
                      {i \in 1..Len(folders) : Contains(folders[i], anchor)})
        items  == IF phone_last9 # <<>>
                  THEN SelectSeq(all, LAMBDA i :
                           Contains(OnlyDigits(folders[i]), phone_last9))
                  ELSE all
    IN  IF ~QueryTextOk(anchor) THEN Raise(<<2>>)
        ELSE IF items # <<>> THEN Found(LongestFirst(items, folders), 2, <<2>>)
        ELSE Found(0, 0, <<2>>)

\* set(t for t in normalize_spaces(s.split(",")[0]).split() if t)
NameTokens(s) ==
    LET parts == Split(normalize_spaces(Split(s, ",")[1]), " ")
    IN  {parts[i] : i \in {j \in 1..Len(parts) : parts[j] # <<>>}}

\* The name-contains patterns of Tier 3, those holding an apostrophe left out.
PhonePatterns(e164) ==
    LET last9 == LastN(OnlyDigits(e164), 9)
        op2   == Slice(last9, 0, 2)
        mid3  == Slice(last9, 2, 5)
        last4 == Slice(last9, 5, 9)
        patterns == { op2 \o <<" ">> \o mid3 \o <<" ">> \o last4,
                      mid3 \o <<" ">> \o last4,
                      last4,
                      last9,
                      Plus380 \o <<" ">> \o op2 \o <<" ">> \o mid3 \o <<" ">> \o last4,
                      Plus380 \o op2 \o mid3 \o last4 }
    IN  {p \in patterns : QueryTextOk(p)}

\* The candidates kept when the confirmation is left out.
PhoneUnconfirmed(folders, seen, e164) == seen

\* The candidates kept after the phone confirmation (lines 280-284).
PhoneConfirmed(folders, seen, e164) ==
    SelectSeq(seen, LAMBDA i :
        LET cand == _extract_e164_from_title(folders[i])
        IN  cand # None /\ normalize_phone_e164_ua(cand) = e164)

\* Tier 3.  expected_fio is None when no expected name is supplied.
find_folder_by_phone(folders, phone_e164, expected_fio) ==
    LET e164    == normalize_phone_e164_ua(phone_e164)
        pats    == PhonePatterns(e164)
        seen    == InStoreOrder(folders,
                       {i \in 1..Len(folders) :
                           \E p \in pats : Contains(folders[i], p)})
        matched == PhoneConfirmed(folders, seen, e164)
        exp     == NameTokens(expected_fio)
        Overlap(i) == Cardinality(NameTokens(folders[i]) \cap exp)
        best    == matched[FirstMaxPos([k \in 1..Len(matched) |->
                       <<Overlap(matched[k]), Len(folders[matched[k]])>>])]
    IN  IF matched = <<>> THEN Found(0, 0, <<3>>)
        ELSE IF Len(matched) = 1 \/ expected_fio = None \/ expected_fio = <<>>
             THEN Found(LongestFirst(matched, folders), 3, <<3>>)
        ELSE Found(best, 3, <<3>>)

find_client_folder_strict(folders, expected_title, phone_e164) ==
    LET exact    == find_folder_by_exact_name_under(folders, expected_title)
        fio_only == normalize_folder_title_for_compare(expected_title)
        last9    == LastN(OnlyDigits(phone_e164), 9)
        fuzzy    == find_folder_by_fuzzy(folders, fio_only, last9)
        byphone  == find_folder_by_phone(folders, phone_e164, expected_title)
    IN  IF exact.status = "error" \/ exact.folder # 0 THEN exact
        ELSE IF fuzzy.status = "error" \/ fuzzy.folder # 0
             THEN [fuzzy EXCEPT !.queries = exact.queries \o fuzzy.queries]
        ELSE [byphone EXCEPT
                 !.queries = exact.queries \o fuzzy.queries \o byphone.queries]

----------------------------------------------------------------------------
(* SpecResolve: one resolution against a document store.                  *)

\* "Ab Cd, +380671234567": the title build_folder_title gives for "ab cd"
NameExactAbCd ==
    <<"A", "b", " ", "C", "d", ",", " ", "+", "3", "8", "0", "6", "7", "1",
      "2", "3", "4", "5", "6", "7">>

\* "Ab Cd, 067 123 4567": the same client, the phone written in groups
NameSpacedAbCd ==
    <<"A", "b", " ", "C", "d", ",", " ", "0", "6", "7", " ", "1", "2", "3",
      " ", "4", "5", "6", "7">>

\* "Ab Cdef, 06712345678": another client: the name and the number only contain the expected ones
NameOtherAbCdef ==
    <<"A", "b", " ", "C", "d", "e", "f", ",", " ", "0", "6", "7", "1", "2",
      "3", "4", "5", "6", "7", "8">>

\* "Ef, 067 123 4567": the expected phone under another name
NamePhoneOnlyEf ==
    <<"E", "f", ",", " ", "0", "6", "7", " ", "1", "2", "3", " ", "4", "5",
      "6", "7">>

\* "Cd Ab, 0671234567": the expected phone, the name tokens in the other order
NameSwappedCdAb ==
    <<"C", "d", " ", "A", "b", ",", " ", "0", "6", "7", "1", "2", "3", "4",
      "5", "6", "7">>

\* "Ef, 067 123 4567 1": a number that only starts like the expected one
NameSimilarEf ==
    <<"E", "f", ",", " ", "0", "6", "7", " ", "1", "2", "3", " ", "4", "5",
      "6", "7", " ", "1">>

\* "D'A, +380671234567": the title build_folder_title gives for "d'a"
NameExactDA ==
    <<"D", "'", "A", ",", " ", "+", "3", "8", "0", "6", "7", "1", "2", "3",
      "4", "5", "6", "7">>

\* "Ab Cd": no phone at all
NameNoPhone ==
    <<"A", "b", " ", "C", "d">>

FolderNames ==
    {NameExactAbCd, NameSpacedAbCd, NameOtherAbCdef, NamePhoneOnlyEf,
     NameSwappedCdAb, NameSimilarEf, NameExactDA, NameNoPhone}

\* Most folders under the root.
MaxFolders == 3

\* The contacts looked for: names as the record system holds them.
ResolveNames == {<<"a", "b", " ", "c", "d">>, <<"d", "U2019", "a">>}

ResolvePhone == <<"0", "6", "7", "1", "2", "3", "4", "5", "6", "7">>

\* As handle_check calls the resolver (src/main.py:462, 498-500): the phone
\* normalized, the title built from the contact name and that phone.
InitResolve ==
    /\ op = "none"
    /\ \E fs \in SeqsUpTo(FolderNames, MaxFolders), fio \in ResolveNames :
           LET phone == normalize_phone_e164_ua(ResolvePhone)
           IN  arg = [folders |-> fs,
                      expected_title |-> build_folder_title(fio, phone),
                      phone |-> phone,
                      expected_fio |-> None]
    /\ ret = <<>>
    /\ InitBot

CallFindClientFolderStrict ==
    /\ op = "none"
    /\ op' = "find_client_folder_strict"
    /\ ret' = find_client_folder_strict(arg.folders, arg.expected_title, arg.phone)
    /\ UNCHANGED <<arg, cache, fetches, nreq, last>>

\* Tier 3 called on its own, with or without an expected name.
CallFindFolderByPhone ==
    /\ op = "none"
    /\ \E fio \in {None, arg.expected_title} :
           /\ arg' = [arg EXCEPT !.expected_fio = fio]
           /\ ret' = find_folder_by_phone(arg.folders, arg.phone, fio)
    /\ op' = "find_folder_by_phone"
    /\ UNCHANGED <<cache, fetches, nreq, last>>

\* Tier 2 called on its own, as find_client_folder_strict calls it (lines
\* 302-305).
CallFindFolderByFuzzy ==
    /\ op = "none"
    /\ op' = "find_folder_by_fuzzy"
    /\ ret' = find_folder_by_fuzzy(arg.folders,
                  normalize_folder_title_for_compare(arg.expected_title),
                  LastN(OnlyDigits(arg.phone), 9))
    /\ UNCHANGED <<arg, cache, fetches, nreq, last>>

NextResolve ==
    CallFindClientFolderStrict \/ CallFindFolderByPhone \/ CallFindFolderByFuzzy

SpecResolve == InitResolve /\ [][NextResolve]_vars

HasExactTitle == \E i \in 1..Len(arg.folders) : arg.folders[i] = arg.expected_title

\* extractCanonicalFromText of the folder name is exactly the expected
\* canonical phone.
PhoneExact(name) ==
    _extract_e164_from_title(name) = normalize_phone_e164_ua(arg.phone)

\* C1, as claimed: when a folder named exactly expected_title is under the
\* root, whatever else is, find_client_folder_strict returns such a folder
\* from Tier 1 and issues no Tier 2 or Tier 3 query.
C1_ExactTitleWinsAtTier1 ==
    (op = "find_client_folder_strict" /\ HasExactTitle)
    => /\ ret.status = "ok"
       /\ ret.folder # 0
       /\ arg.folders[ret.folder] = arg.expected_title
       /\ ret.tier = 1
       /\ ret.queries = <<1>>

\* Tier ordering for the titles that hold no apostrophe: C1 fails on no other
\* title.
ExactTitleWinsWithoutApostrophe ==
    (op = "find_client_folder_strict" /\ HasExactTitle
        /\ QueryTextOk(arg.expected_title))
    => /\ ret.status = "ok"
       /\ ret.folder # 0
       /\ arg.folders[ret.folder] = arg.expected_title
       /\ ret.tier = 1
       /\ ret.queries = <<1>>

\* C2, as claimed: when some folder name yields exactly the expected phone,
\* the folder find_client_folder_strict returns is the exact-title one or one
\* whose name yields exactly the expected phone too.
C2_NoWrongFolderWhenPhoneExactExists ==
    (/\ op = "find_client_folder_strict"
     /\ ret.status = "ok"
     /\ ret.folder # 0
     /\ \E i \in 1..Len(arg.folders) : PhoneExact(arg.folders[i]))
    => \/ arg.folders[ret.folder] = arg.expected_title
       \/ PhoneExact(arg.folders[ret.folder])

\* C3: every folder Tier 3 returns, called by the cascade or on its own, with
\* or without an expected name, has a name whose extracted phone is exactly
\* the expected canonical phone.
C3_Tier3PhoneConfirmed ==
    (op \in {"find_client_folder_strict", "find_folder_by_phone"}
        /\ ret.status = "ok" /\ ret.tier = 3 /\ ret.folder # 0)
    => /\ _extract_e164_from_title(arg.folders[ret.folder]) # None
       /\ PhoneExact(arg.folders[ret.folder])

\* C3 witness: Tier 3 chose by token overlap among several confirmed
\* candidates while a folder with a merely similar number was a candidate.
C3_Tier3ChoseAmongCandidates ==
    /\ op = "find_folder_by_phone"
    /\ arg.expected_fio # None
    /\ ret.tier = 3
    /\ ret.folder # 0
    /\ \E i, j \in 1..Len(arg.folders) :
           /\ i # j
           /\ PhoneExact(arg.folders[i])
           /\ PhoneExact(arg.folders[j])
    /\ \E i \in 1..Len(arg.folders) : arg.folders[i] = NameSimilarEf

\* The candidates of Tier 2 for an anchor: the folders whose name contains
\* the anchor and whose digits contain the last 9 digits of the expected
\* phone.
FuzzyCandidates(anchor) ==
    {i \in 1..Len(arg.folders) :
        /\ Contains(arg.folders[i], anchor)
        /\ Contains(OnlyDigits(arg.folders[i]), LastN(OnlyDigits(arg.phone), 9))}

\* Tier 2 answered none when there is no candidate, and otherwise the
\* first-seen among the candidates of the longest raw name.
FuzzySelected(cands) ==
    /\ ret.status = "ok"
    /\ (cands = {} => ret.folder = 0)
    /\ (cands # {}
        => /\ ret.folder \in cands
           /\ \A j \in cands :
                  \/ Len(arg.folders[j]) < Len(arg.folders[ret.folder])
                  \/ (Len(arg.folders[j]) = Len(arg.folders[ret.folder])
                         /\ ret.folder <= j))

\* The name portion of the canonicalized expected title.
ExpectedNamePart == Split(normalize_folder_title_for_compare(arg.expected_title), ",")[1]

\* The surname token: the first whitespace-delimited token of the name
\* portion.
SurnameToken == Split(ExpectedNamePart, " ")[1]

\* C13, as claimed: Tier 2 queries the names containing the surname token
\* of the canonicalized expected title, keeps the candidates whose digits
\* contain the last 9 digits of the expected phone, answers none when no
\* candidate remains and otherwise the longest raw name, the first-seen of
\* equal lengths.
C13_Tier2SelectsBySurnameToken ==
    op = "find_folder_by_fuzzy" => FuzzySelected(FuzzyCandidates(SurnameToken))

\* What holds of C13: with the whole name portion as the anchor, and no
\* apostrophe in it, the selection is as claimed.
Tier2SelectsByNamePart ==
    (op = "find_folder_by_fuzzy" /\ QueryTextOk(ExpectedNamePart))
    => FuzzySelected(FuzzyCandidates(ExpectedNamePart))

\* Tier 2 told two candidates of equal length apart by store order.
Tier2TieReached ==
    /\ op = "find_folder_by_fuzzy"
    /\ ret.folder # 0
    /\ \E j \in FuzzyCandidates(ExpectedNamePart) :
           j # ret.folder /\ Len(arg.folders[j]) = Len(arg.folders[ret.folder])
           /\ arg.folders[j] # arg.folders[ret.folder]

----------------------------------------------------------------------------
(* Stage history, src/main.py:408-456.  A CREATED_TIME is an ISO-8601 text  *)
(* "<local date and time><UTC offset>", held as [local, off] in half hours; *)
(* two such texts compare as Python compares strings, local part first.     *)

\* UTC offsets of one portal over a year, +02:00 and +03:00, in half hours.
Offsets == {4, 6}

\* _parse_iso: the instant the text denotes.
_parse_iso(ts) == ts.local - ts.off

\* The sort key r.get("CREATED_TIME", ""): the text itself.
TextKey(ts) == <<ts.local, ts.off>>

\* list.sort(key=...): stable, ascending.  keys[i] is the key of items[i].
SortedBy(items, keys) ==
    LET n == Len(items)
        Rank(i) == 1 + Cardinality({j \in 1..n :
                        \/ KeyLess(keys[j], keys[i])
                        \/ (keys[j] = keys[i] /\ j < i)})
    IN  [r \in 1..n |-> items[CHOOSE i \in 1..n : Rank(i) = r]]

RECURSIVE DropRepeats(_, _)
\* The loop of lines 436-441: an event is skipped when its STAGE_ID is that of
\* the last event kept.
DropRepeats(items, prev_sid) ==
    IF items = <<>> THEN <<>>
    ELSE IF Head(items).sid = prev_sid
         THEN DropRepeats(Tail(items), prev_sid)
         ELSE <<Head(items)>> \o DropRepeats(Tail(items), Head(items).sid)

\* Seconds in a unit of model time, half an hour.
HalfHour == 30 * 60

\* The parts list of _fmt_tdelta from the whole seconds total.
TdeltaParts(total) ==
    LET d    == total \div 86400
        rem  == total % 86400
        h    == rem \div 3600
        m    == (rem % 3600) \div 60
        pd   == IF d # 0 THEN <<[n |-> d, unit |-> "d"]>> ELSE <<>>
        ph   == IF h # 0 THEN <<[n |-> h, unit |-> "h"]>> ELSE <<>>
        pdh  == pd \o ph
    IN  IF m # 0 \/ pdh = <<>> THEN pdh \o <<[n |-> m, unit |-> "m"]>> ELSE pdh

\* The duration is formatted as it is, negative or not.
_fmt_tdelta_unfloored(td) == TdeltaParts(td * HalfHour)

\* total = int(max(td.total_seconds(), 0)), then days, hours and minutes.
_fmt_tdelta(td) == TdeltaParts(Max(td * HalfHour, 0))

\* The default of the limit parameter.
DefaultLimit == 300

\* res is what crm.stagehistory.list returned.
get_deal_stage_history(res, limit) ==
    LET items  == Slice(res, 0, limit)
        sorted == SortedBy(items, [i \in 1..Len(items) |-> TextKey(items[i].ts)])
    IN  DropRepeats(sorted, "None")

\* Every segment ends at the evaluation time: the next event is not looked at.
compute_stage_segments_open(rows, now) ==
    [i \in 1..Len(rows) |->
        LET start == _parse_iso(rows[i].ts)
        IN  [stage_id |-> rows[i].sid, start |-> start, end |-> now,
             duration |-> now - start]]

\* now is what datetime.now() returns when the last segment is built.
compute_stage_segments(rows, now) ==
    [i \in 1..Len(rows) |->
        LET start == _parse_iso(rows[i].ts)
            end   == IF i + 1 <= Len(rows) THEN _parse_iso(rows[i + 1].ts) ELSE now
        IN  [stage_id |-> rows[i].sid, start |-> start, end |-> end,
             duration |-> end - start]]

----------------------------------------------------------------------------
(* SpecSeg: compute_stage_segments on a deduplicated, time-ascending list;  *)
(* SpecHist: get_deal_stage_history on a fetched log, then its segments.    *)

\* Most events of a log.
MaxEvents == 3

\* Latest local time of an event, in half hours.
MaxLocal == 2

StageIds == {"C1:NEW", "C1:WON"}

Events == [sid : StageIds, ts : [local : 0..MaxLocal, off : Offsets]]

\* An evaluation time more than a day after every event.
MaxNow == 50

\* Evaluation times: from before the earliest event to after the latest.
Nows == ((0 - 7)..(MaxLocal - 3)) \cup {MaxNow}

TimeAscending(rows) ==
    \A i \in 1..(Len(rows) - 1) : _parse_iso(rows[i].ts) <= _parse_iso(rows[i + 1].ts)

Deduplicated(rows) ==
    \A i \in 1..(Len(rows) - 1) : rows[i].sid # rows[i + 1].sid

InitSeg ==
    /\ op = "none"
    /\ \E rows \in SeqsUpTo(Events, MaxEvents), now \in Nows :
           /\ TimeAscending(rows)
           /\ Deduplicated(rows)
           /\ arg = [rows |-> rows, now |-> now]
    /\ ret = <<>>
    /\ InitBot

CallComputeStageSegments ==
    /\ op = "none"
    /\ op' = "compute_stage_segments"
    /\ ret' = compute_stage_segments(arg.rows, arg.now)
    /\ UNCHANGED <<arg, cache, fetches, nreq, last>>

\* handle_check, lines 528-533: the duration text of every segment.
CallFmtTdelta ==
    /\ op = "compute_stage_segments"
    /\ ret # <<>>
    /\ op' = "_fmt_tdelta"
    /\ ret' = [i \in 1..Len(ret) |->
                  [duration |-> ret[i].duration,
                   dur_s    |-> _fmt_tdelta(ret[i].duration)]]
    /\ UNCHANGED <<arg, cache, fetches, nreq, last>>

NextSeg == CallComputeStageSegments \/ CallFmtTdelta

SpecSeg == InitSeg /\ [][NextSeg]_vars

InitHist ==
    /\ op = "none"
    /\ arg \in [res : SeqsUpTo(Events, MaxEvents), now : {MaxLocal}]
    /\ ret = <<>>
    /\ InitBot

CallGetDealStageHistory ==
    /\ op = "none"
    /\ op' = "get_deal_stage_history"
    /\ ret' = get_deal_stage_history(arg.res, DefaultLimit)
    /\ UNCHANGED <<arg, cache, fetches, nreq, last>>

\* handle_check, lines 521-523: the segments of a non-empty history.
CallSegmentsOfHistory ==
    /\ op = "get_deal_stage_history"
    /\ ret # <<>>
    /\ op' = "compute_stage_segments"
    /\ ret' = compute_stage_segments(ret, arg.now)
    /\ UNCHANGED <<arg, cache, fetches, nreq, last>>

NextHist == CallGetDealStageHistory \/ CallSegmentsOfHistory

SpecHist == InitHist /\ [][NextHist]_vars

\* The parts of C7 the code keeps whatever the evaluation time is.
SegmentsFollowEvents(rows, segs, now) ==
    /\ Len(segs) = Len(rows)
    /\ \A i \in 1..Len(segs) : segs[i].start = _parse_iso(rows[i].ts)
    /\ \A i \in 1..(Len(segs) - 1) : segs[i].end = segs[i + 1].start
    /\ (segs # <<>> => segs[Len(segs)].end = now)

\* C7, as claimed: one segment per event, each starting at its event, each
\* ending where the next starts, and the last ending (at the evaluation time)
\* no earlier than any event of the list.
C7_SegmentsCoverEvents ==
    (op = "compute_stage_segments" /\ arg.rows # <<>>)
    => /\ SegmentsFollowEvents(arg.rows, ret, arg.now)
       /\ \A j \in 1..Len(arg.rows) :
              ret[Len(ret)].end >= _parse_iso(arg.rows[j].ts)

\* C7, amended: one segment per event, each starting at its event, each
\* ending where the next starts, the last ending at the evaluation time; that
\* end is no earlier than every event exactly when the evaluation time is no
\* earlier than the last event.
C7_SegmentsContiguousEndAtNow ==
    (op = "compute_stage_segments" /\ arg.rows # <<>>)
    => /\ SegmentsFollowEvents(arg.rows, ret, arg.now)
       /\ (arg.now >= _parse_iso(arg.rows[Len(arg.rows)].ts)
           <=> \A j \in 1..Len(arg.rows) :
                   ret[Len(ret)].end >= _parse_iso(arg.rows[j].ts))

\* C7 witness: segments of several events, computed at an evaluation time
\* earlier than the last event.
C7_SegmentsBeforeLastEvent ==
    /\ op = "compute_stage_segments"
    /\ Len(ret) >= 2
    /\ arg.now < _parse_iso(arg.rows[Len(arg.rows)].ts)

RECURSIVE PartsMinutes(_)
\* The minutes a duration text stands for.
PartsMinutes(parts) ==
    IF parts = <<>> THEN 0
    ELSE LET p == Head(parts)
         IN  (CASE p.unit = "d" -> 1440 * p.n
                [] p.unit = "h" -> 60 * p.n
                [] OTHER        -> p.n) + PartsMinutes(Tail(parts))

\* C11, as claimed: the duration field of every segment returned by
\* compute_stage_segments is end - start floored at zero, whatever the
\* evaluation time is.
C11_DurationFieldFloored ==
    op = "compute_stage_segments"
    => \A i \in 1..Len(ret) :
           /\ ret[i].duration = Max(ret[i].end - ret[i].start, 0)
           /\ ret[i].duration >= 0

\* C11, amended: the duration field of every segment is end - start as it
\* is, negative when the evaluation time is earlier than the last event; the
\* floor at zero is applied where the duration is formatted, so the text
\* shown for a segment has no negative part and stands for the minutes of
\* max(end - start, 0).
C11_DurationFlooredWhenFormatted ==
    /\ op = "compute_stage_segments"
       => /\ \A i \in 1..Len(ret) : ret[i].duration = ret[i].end - ret[i].start
          /\ (ret # <<>> /\ arg.now < _parse_iso(arg.rows[Len(arg.rows)].ts)
              => ret[Len(ret)].duration < 0)
    /\ op = "_fmt_tdelta"
       => \A i \in 1..Len(ret) :
              /\ \A k \in 1..Len(ret[i].dur_s) : ret[i].dur_s[k].n >= 0
              /\ PartsMinutes(ret[i].dur_s) = (HalfHour \div 60) * Max(ret[i].duration, 0)

\* C11 witness: the duration texts of a history whose last segment was
\* computed at an evaluation time earlier than its event, next to one that
\* lasted a whole number of hours.
C11_NegativeDurationFormatted ==
    /\ op = "_fmt_tdelta"
    /\ Len(ret) >= 2
    /\ ret[Len(ret)].duration < 0
    /\ ret[1].duration >= 2

\* C8, as claimed: the history is the fetched log in ascending order of time,
\* events of equal time in fetch order, without the events whose stage id is
\* that of the event kept before them.
C8_HistorySortedAndDeduplicated ==
    op = "get_deal_stage_history" =>
        LET byTime == SortedBy(arg.res,
                          [i \in 1..Len(arg.res) |-> <<_parse_iso(arg.res[i].ts), 0>>])
        IN  /\ TimeAscending(ret)
            /\ Deduplicated(ret)
            /\ ret = DropRepeats(byTime, "None")

\* The same with the order of the CREATED_TIME texts in place of the order of
\* the instants: what the code keeps.
HistorySortedByTextAndDeduplicated ==
    op = "get_deal_stage_history" =>
        /\ \A i \in 1..(Len(ret) - 1) : ~KeyLess(TextKey(ret[i + 1].ts), TextKey(ret[i].ts))
        /\ Deduplicated(ret)

\* C8 holds on the logs whose events all carry one UTC offset.
HistoryDeduplicatedUnderOneOffset ==
    (op = "get_deal_stage_history"
        /\ \A i, j \in 1..Len(arg.res) : arg.res[i].ts.off = arg.res[j].ts.off)
    => LET byTime == SortedBy(arg.res,
                         [i \in 1..Len(arg.res) |-> <<_parse_iso(arg.res[i].ts), 0>>])
       IN  ret = DropRepeats(byTime, "None") /\ TimeAscending(ret)

----------------------------------------------------------------------------
(* The /check handler, src/main.py:358-406 and 458-567.  A collaborator     *)
(* call answers or fails; what it answers is drawn with the request.        *)

CATEGORY_ID == 1

\* re.match(r"^C(\d+):", stage_id): the category of a stage id, 0 for none.
StageCat(sid) ==
    CASE sid \in {"C1:NEW", "C1:WON"} -> 1
      [] sid = "C2:NEW" -> 2
      [] OTHER -> 0

\* One label resolution.  labels is what get_stage_map_for_category answers
\* ("error": the call raises).  ok is FALSE when the resolution raised.
_stage_name_by_sid(stage_id, c, f, labels) ==
    LET cat == StageCat(stage_id)
    IN  IF cat = 0 \/ cat \in DOMAIN c
        THEN [ok |-> TRUE, cache |-> c, fetches |-> f]
        ELSE IF labels = "error"
             THEN [ok |-> FALSE, cache |-> c, fetches |-> f]
             ELSE [ok |-> TRUE, cache |-> c @@ (cat :> labels),
                   fetches |-> [f EXCEPT ![cat].cached = @ + 1]]

RECURSIVE NameSegments(_, _, _, _)
\* The loop of lines 529-534 over the segments, up to the first resolution
\* that raises.
NameSegments(segs, c, f, labels) ==
    IF segs = <<>> THEN [ok |-> TRUE, cache |-> c, fetches |-> f]
    ELSE LET r == _stage_name_by_sid(Head(segs).stage_id, c, f, labels)
         IN  IF r.ok THEN NameSegments(Tail(segs), r.cache, r.fetches, labels)
             ELSE r

\* The document line, lines 495-515.  env: build ("ok" / "error"), the folders
\* under the root, plan ("found" / "none" / "error"), link ("ok" / "error").
DocLine(env, client_fio, phone) ==
    LET title  == build_folder_title(client_fio, phone)
        folder == find_client_folder_strict(env.folders, title, phone)
    IN  IF env.build = "error" THEN "error"
        ELSE IF folder.status = "error" THEN "drive_error"
        ELSE IF folder.folder = 0 THEN "no_folder"
        ELSE IF env.plan = "error" THEN "drive_error"
        ELSE IF env.plan = "none" THEN "no_plan"
        ELSE IF env.link = "error" THEN "drive_error"
        ELSE "link"

\* The history part, lines 518-537.  log is the answer of
\* crm.stagehistory.list: its items, or ok = FALSE when the call raises.
HistoryBlock(log, now, labels, c, f) ==
    LET hist  == get_deal_stage_history(log.items, DefaultLimit)
        segs  == compute_stage_segments(hist, now)
        named == NameSegments(segs, c, f, labels)
    IN  IF ~log.ok
        THEN [failed |-> TRUE, history |-> FALSE, stage_extra |-> FALSE,
              cache |-> c, fetches |-> f]
        ELSE IF hist = <<>>
        THEN [failed |-> FALSE, history |-> FALSE, stage_extra |-> FALSE,
              cache |-> c, fetches |-> f]
        ELSE [failed |-> ~named.ok, history |-> named.ok, stage_extra |-> TRUE,
              cache |-> named.cache, fetches |-> named.fetches]

Replied(kind, valid) ==
    [kind |-> "handle_check", valid |-> valid, failed |-> {}, replies |-> 1,
     reply |-> [NoReply EXCEPT !.kind = kind]]

\* An exception leaves handle_check: nothing is sent.
Raised(call) ==
    [kind |-> "handle_check", valid |-> TRUE, failed |-> {call}, replies |-> 0,
     reply |-> NoReply]

\* Most requests handled.
MaxRequests == 2

RawPhones == {ResolvePhone, <<"1", "2">>}

DocStores == {<<>>, <<NameExactAbCd>>, <<NameExactDA>>}

DriveEnvs ==
    [build : {"ok", "error"}, folders : DocStores,
     plan : {"found", "none", "error"}, link : {"ok", "error"}]

\* Most events of a stage history in a request.
MaxHist == 2

\* The logs a request may get: stage ids in time order, all in one offset.
HistLogs ==
    {[i \in 1..Len(q) |-> [sid |-> q[i], ts |-> [local |-> i, off |-> 4]]] :
        q \in SeqsUpTo({"C1:NEW", "C2:NEW", "NEW"}, MaxHist)}

HistAnswers ==
    [ok : {TRUE}, items : HistLogs] \cup {[ok |-> FALSE, items |-> <<>>]}

LabelLists == {"labels v1", "labels v2"}

\* The document lines a request for this phone can get, over the contact
\* names and the states of the document store.
DocLines(phone) ==
    {DocLine(env, normalize_fio_string(fio), phone) :
        env \in DriveEnvs, fio \in ResolveNames}

\* The full report, lines 539-553, sent once.
Reported(doc, user, h) ==
    [kind |-> "handle_check", valid |-> TRUE,
     failed |-> (IF user = "error" THEN {"try_get_user_name"} ELSE {})
                \cup (IF doc \in {"error", "drive_error"} THEN {"drive"} ELSE {})
                \cup (IF h.failed THEN {"history"} ELSE {}),
     replies |-> 1,
     reply |-> [kind |-> "report", doc |-> doc, history |-> h.history,
                stage_extra |-> h.stage_extra,
                \* try_get_user_name answers "ID n (no rights)", the document
                \* line names a Drive failure; a history failure is only logged
                noted |-> (IF user = "error" THEN {"try_get_user_name"} ELSE {})
                          \cup (IF doc \in {"error", "drive_error"}
                                THEN {"drive"} ELSE {})]]

handle_check(raw_phone) ==
    LET phone == normalize_phone_e164_ua(raw_phone)
    IN
    \/ /\ Len(OnlyDigits(phone)) < 12
       /\ last' = Replied("usage", FALSE)
       /\ UNCHANGED <<cache, fetches>>
    \/ /\ Len(OnlyDigits(phone)) >= 12
       /\ \/ /\ last' = Raised("find_contact_by_phone")
             /\ UNCHANGED <<cache, fetches>>
          \/ /\ last' = Replied("no_contact", TRUE)
             /\ UNCHANGED <<cache, fetches>>
          \/ /\ last' = Raised("get_last_deal_for_contact")
             /\ UNCHANGED <<cache, fetches>>
          \/ /\ last' = Replied("no_deal", TRUE)
             /\ UNCHANGED <<cache, fetches>>
          \/ /\ last' = Raised("get_stage_map_for_category")
             /\ UNCHANGED <<cache, fetches>>
          \/ \E doc \in DocLines(phone), user \in {"ok", "error"},
                log \in HistAnswers,
                labels \in LabelLists \cup {"error"} :
                LET f1 == [fetches EXCEPT ![CATEGORY_ID].direct = @ + 1]
                    h  == HistoryBlock(log, MaxHist + 1, labels, cache, f1)
                IN  /\ cache' = h.cache
                    /\ fetches' = h.fetches
                    /\ last' = Reported(doc, user, h)

\* on_check_cmd: /check with its arguments joined.
on_check_cmd ==
    /\ nreq < MaxRequests
    /\ nreq' = nreq + 1
    /\ \/ /\ last' = Replied("usage", FALSE)
          /\ UNCHANGED <<cache, fetches>>
       \/ \E raw \in RawPhones : handle_check(raw)
    /\ UNCHANGED <<op, arg, ret>>

\* on_text: a message that matches CHECK_RX is handled, any other is ignored.
on_text ==
    /\ nreq < MaxRequests
    /\ nreq' = nreq + 1
    /\ \/ /\ last' = [kind |-> "on_text", valid |-> FALSE, failed |-> {},
                      replies |-> 0, reply |-> NoReply]
          /\ UNCHANGED <<cache, fetches>>
       \/ \E raw \in RawPhones : handle_check(raw)
    /\ UNCHANGED <<op, arg, ret>>

Init ==
    /\ op = "none"
    /\ arg = <<>>
    /\ ret = <<>>
    /\ InitBot

Next == on_check_cmd \/ on_text

Spec == Init /\ [][Next]_vars

\* C9, as claimed: a request with a valid phone gets exactly one reply
\* whichever collaborator call fails; the reply describes each failure, and
\* a history failure leaves the document line in it.
C9_UpstreamFailureNeverAborts ==
    (last.kind = "handle_check" /\ last.valid)
    => /\ last.replies = 1
       /\ last.failed \subseteq last.reply.noted
       /\ ("history" \in last.failed => last.reply.doc # "none")

\* What holds of C9: a failure of the user-name lookup, of the document
\* lookup or of the history leaves one full report, with the document line.
EnrichmentFailureKeepsReport ==
    (/\ last.kind = "handle_check"
     /\ last.failed # {}
     /\ last.failed \subseteq {"try_get_user_name", "drive", "history"})
    => /\ last.replies = 1
       /\ last.reply.kind = "report"
       /\ last.reply.doc # "none"

\* C10, as claimed: over the requests of the process the label list of a
\* category is obtained from the record system at most once, and an entry of
\* the cache is never removed or replaced.
C10_LabelsFetchedOncePerCategory ==
    [][/\ \A c \in Cats : fetches'[c].direct + fetches'[c].cached <= 1
       /\ \A c \in DOMAIN cache : c \in DOMAIN cache' /\ cache'[c] = cache[c]]_vars

\* What holds of C10: the cache is append-only, and the cached resolver
\* obtains the list of a category at most once.
CacheAppendOnly ==
    [][\A c \in DOMAIN cache : c \in DOMAIN cache' /\ cache'[c] = cache[c]]_vars

CachedResolverFetchesOnce == \A c \in Cats : fetches[c].cached <= 1

----------------------------------------------------------------------------
(* SpecExtract: _extract_e164_from_title on folder names put together from  *)
(* name parts, separators and digit groups.                                 *)

\* The pieces of a folder name.
Chunks ==
    {<<"A", "b">>, <<",", " ">>, <<" ">>, <<"2">>, <<"1", "2">>,
     <<"0", "6", "7">>, <<"1", "2", "3", "4", "5", "6", "7">>,
     <<"0", "6", "7", "1", "2", "3", "4", "5", "6", "7">>,
     <<"+", "3", "8", "0", "6", "7", "1", "2", "3", "4", "5", "6", "7">>}

\* Most pieces of a folder name.
MaxChunks == 3

RECURSIVE Concat(_)
Concat(parts) == IF parts = <<>> THEN <<>> ELSE Head(parts) \o Concat(Tail(parts))

ExtractTitles == {Concat(parts) : parts \in SeqsUpTo(Chunks, MaxChunks)}

InitExtract ==
    /\ op = "none"
    /\ arg \in [title : ExtractTitles]
    /\ ret = <<>>
    /\ InitBot

CallExtractE164FromTitle ==
    /\ op = "none"
    /\ op' = "_extract_e164_from_title"
    /\ ret' = _extract_e164_from_title(arg.title)
    /\ UNCHANGED <<arg, cache, fetches, nreq, last>>

\* find_folder_by_phone, line 286: the extracted phone against the expected
\* one.
CallCompareWithExpected ==
    /\ op = "_extract_e164_from_title"
    /\ op' = "compare"
    /\ ret' = <<ret = normalize_phone_e164_ua(ResolvePhone)>>
    /\ UNCHANGED <<arg, cache, fetches, nreq, last>>

NextExtract == CallExtractE164FromTitle \/ CallCompareWithExpected

SpecExtract == InitExtract /\ [][NextExtract]_vars

RECURSIVE DigitRuns(_, _)
\* The maximal runs of consecutive digits of a text, as they appear in it,
\* left to right; run is the run being read.
DigitRuns(s, run) ==
    IF s = <<>> THEN (IF run = <<>> THEN <<>> ELSE <<run>>)
    ELSE IF Head(s) \in Digit THEN DigitRuns(Tail(s), Append(run, Head(s)))
    ELSE (IF run = <<>> THEN <<>> ELSE <<run>>) \o DigitRuns(Tail(s), <<>>)

\* The maximal runs of 9 to 12 digits of a text.
PhoneRuns(s) ==
    SelectSeq(DigitRuns(s, <<>>), LAMBDA r : Len(r) >= 9 /\ Len(r) <= 12)

\* C12, as claimed: the extraction gives absence for a text of fewer than 9
\* digits in total, and otherwise the canonical form of the last maximal run
\* of 9 to 12 consecutive digits of the text, so digits elsewhere in the
\* name are no part of the phone.
C12_ExtractLastRunOfText ==
    op = "_extract_e164_from_title"
    => /\ (Len(OnlyDigits(arg.title)) < 9 => ret = None)
       /\ (PhoneRuns(arg.title) # <<>>
           => ret = normalize_phone_e164_ua(
                        PhoneRuns(arg.title)[Len(PhoneRuns(arg.title))]))

\* What holds of C12: absence below 9 digits in total; and for a text whose
\* digits are one run of 9 to 12, the canonical form of that run.
ExtractOfSingleRun ==
    op = "_extract_e164_from_title"
    => /\ (Len(OnlyDigits(arg.title)) < 9 <=> ret = None)
       /\ (Len(DigitRuns(arg.title, <<>>)) = 1 /\ PhoneRuns(arg.title) # <<>>
           => ret = normalize_phone_e164_ua(PhoneRuns(arg.title)[1]))

====
